---------------------------- MODULE Spec2Model ----------------------------
(***************************************************************************)
(* A model of svelte-preprocess's dispatcher (autoPreprocess: the option   *)
(* resolver, the transformer invoker, the per-block pipeline, the markup   *)
(* splicer and the markup / script / style entry points) and of its scss   *)
(* transformer with the module-level cache of the sass implementation.     *)
(*                                                                         *)
(* Conventions.  A JavaScript string is a sequence of one-character        *)
(* strings; the tag name `template` is written t, the attribute name       *)
(* `lang` is written l and the language `pug` is written p, so that the    *)
(* markup pattern can be matched character by character on short           *)
(* documents.  An optional field is None (absent / undefined) or Some(v).  *)
(* The values null and undefined of a language name are the strings Null   *)
(* and Undef.                                                              *)
(***************************************************************************)
EXTENDS Naturals, Sequences, FiniteSets, TLC

VARIABLES
    \* the closure of autoPreprocess(...)
    transformers,   \* `rest`: option bag, name -> TransformerOptions
    preserve,       \* the `preserve` list
    defaults,       \* the `defaults` argument, per category
    sourceMap,      \* the `sourceMap` flag
    installed,      \* what hasDepInstalled('postcss') resolves to
    \* one invocation of markup(), script() or style()
    entry,          \* which entry point the host calls
    pc,             \* position of the invocation
    svelteFile,     \* its argument {content, attributes, filename}
    content,        \* markup(): the local `content` (after the pre-pass)
    templateMatch,  \* markup(): content.match(markupPattern)
    transformResult,\* what the per-block pipeline returned
    cur,            \* the locals code / map / dependencies / diagnostics
    calls,          \* the calls made so far, in order
    result,         \* what the entry point returned
    \* one call of getTransformerOptions(name, alias)
    optQuery,
    \* the scss transformer module
    sass,           \* the module-level `let sass`
    inv,            \* the invocations of transformer(), per caller
    importCalls,    \* the importAny('sass', 'node-sass') calls made so far
    started         \* how many invocations have started

vars == << transformers, preserve, defaults, sourceMap, installed, entry, pc,
           svelteFile, content, templateMatch, transformResult, cur, calls,
           result, optQuery, sass, inv, importCalls, started >>

cfgVars == << transformers, preserve, defaults, sourceMap, installed, entry >>
invVars == << pc, svelteFile, content, templateMatch, transformResult, cur,
              calls, result >>
sassVars == << sass, inv, importCalls, started >>

--------------------------------------------------------------------------
(* Values *)

Undef == "undefined"
Null == "null"
Absent == "absent"

None == << >>
Some(x) == << x >>

\* Option keys and values of the plain option objects that are modelled.
Keys == { "indentedSyntax", "sourceMap", "k" }
Vals == { "true", "false" }

EmptyObj == [ k \in Keys |-> Absent ]
Objects == [ Keys -> Vals \cup { Absent } ]

\* TransformerOptions: undefined | false | true | function | object
Opt(kind, obj, fn) == [ kind |-> kind, obj |-> obj, fn |-> fn ]
UndefOpt == Opt("undefined", EmptyObj, "")
FalseOpt == Opt("false", EmptyObj, "")
TrueOpt == Opt("true", EmptyObj, "")
FnOpt(f) == Opt("function", EmptyObj, f)
ObjOpt(o) == Opt("object", o, "")

\* Object.assign(target, source): the source's own keys win.
Assign(target, source) ==
    [ k \in Keys |-> IF source[k] # Absent THEN source[k] ELSE target[k] ]

\* `transformers[key]`: undefined for a key the bag does not hold.
Lookup(key) == IF key \in DOMAIN transformers THEN transformers[key] ELSE UndefOpt

Truthy(o) == o.kind \in { "true", "function", "object" }

--------------------------------------------------------------------------
(* modules/language: the alias registry and the source-map option table *)

getLanguageFromAlias(alias) ==
    CASE alias = "sass" -> "scss"
      [] alias = "ts" -> "typescript"
      [] alias = "js" -> "javascript"
      [] OTHER -> alias

SourceMapNames == { "scss", "typescript", "babel", "postcss", "globalStyle" }
SOURCE_MAP_PROP_MAP(name) == << "sourceMap", "true" >>

--------------------------------------------------------------------------
(* autoPreprocess: ALIAS_OPTION_OVERRIDES and getTransformerOptions *)

ALIAS_OPTION_OVERRIDES(alias) ==
    IF alias = "sass" THEN [ EmptyObj EXCEPT !["indentedSyntax"] = "true" ]
    ELSE EmptyObj

\* A resolver that applies the alias override after the alias-keyed options.
getTransformerOptions_overrideLast(name, alias) ==
    LET nameOpts == Lookup(name)
        aliasOpts == Lookup(alias)
        o1 == IF nameOpts.kind = "object" THEN Assign(EmptyObj, nameOpts.obj) ELSE EmptyObj
        o2 == IF name # alias
              THEN Assign(IF aliasOpts.kind = "object" THEN Assign(o1, aliasOpts.obj) ELSE o1,
                          ALIAS_OPTION_OVERRIDES(alias))
              ELSE o1
        o3 == IF sourceMap /\ name \in SourceMapNames
              THEN [ o2 EXCEPT ![SOURCE_MAP_PROP_MAP(name)[1]] = SOURCE_MAP_PROP_MAP(name)[2] ]
              ELSE o2
    IN  IF aliasOpts.kind = "function" THEN aliasOpts
        ELSE IF nameOpts.kind = "function" THEN nameOpts
        ELSE IF aliasOpts.kind = "false" \/ nameOpts.kind = "false" THEN FalseOpt
        ELSE ObjOpt(o3)

getTransformerOptions(name, alias) ==
    LET nameOpts == Lookup(name)
        aliasOpts == Lookup(alias)
        \* opts = {}; Object.assign(opts, nameOpts)
        o1 == IF nameOpts.kind = "object" THEN Assign(EmptyObj, nameOpts.obj) ELSE EmptyObj
        \* if (name !== alias) override table entry, then alias-keyed options
        o2 == IF name # alias
              THEN LET o2a == Assign(o1, ALIAS_OPTION_OVERRIDES(alias))
                   IN  IF aliasOpts.kind = "object" THEN Assign(o2a, aliasOpts.obj) ELSE o2a
              ELSE o1
        \* if (sourceMap && name in SOURCE_MAP_PROP_MAP) opts[propName] = value
        o3 == IF sourceMap /\ name \in SourceMapNames
              THEN [ o2 EXCEPT ![SOURCE_MAP_PROP_MAP(name)[1]] = SOURCE_MAP_PROP_MAP(name)[2] ]
              ELSE o2
    IN  IF aliasOpts.kind = "function" THEN aliasOpts
        ELSE IF nameOpts.kind = "function" THEN nameOpts
        ELSE IF aliasOpts.kind = "false" \/ nameOpts.kind = "false" THEN FalseOpt
        ELSE ObjOpt(o3)

--------------------------------------------------------------------------
(* Processed results, and the record of the calls an invocation makes *)

Processed(code, map, deps, diags) ==
    [ code |-> code, map |-> map, dependencies |-> deps, diagnostics |-> diags,
      error |-> "none" ]

\* A rejected promise: the error propagates to the caller unmodified.
Failed(err) ==
    [ code |-> << >>, map |-> None, dependencies |-> None, diagnostics |-> None,
      error |-> err ]

NoResult == Failed("pending")

Ev(fn, name, opts, c, map, deps, diags) ==
    [ fn |-> fn, name |-> name, opts |-> opts, content |-> c, map |-> map,
      deps |-> deps, diags |-> diags ]

\* What an external transformer reports besides its code on one run.
Ext(deps, diags) == [ dependencies |-> deps, diagnostics |-> diags ]
NoExt == Ext(None, None)
Exts == { NoExt, Ext(Some(<< "a" >>), Some(<< "w" >>)) }

--------------------------------------------------------------------------
(* modules/concat, modules/prepareContent, modules/tagInfo *)

concat(a, b) ==
    IF a = None THEN b
    ELSE IF b = None THEN a
    ELSE Some(a[1] \o b[1])

BOM == "bom"
UndefContent == << "undefined" >>

prepareContent(options, c) ==
    IF Len(c) > 0 /\ c[1] = BOM THEN Tail(c) ELSE c

getTagInfo(file) ==
    [ content |-> file.content,
      lang |-> IF file.attributes.lang = Absent THEN Null
               ELSE getLanguageFromAlias(file.attributes.lang),
      alias |-> IF file.attributes.lang = Absent THEN Null ELSE file.attributes.lang,
      dependencies |-> IF file.attributes.src = Absent THEN << >>
                       ELSE << file.attributes.src >>,
      attributes |-> file.attributes ]

--------------------------------------------------------------------------
(* runTransformer *)

\* The modules under ./transformers/.
TransformerModules ==
    { "typescript", "scss", "less", "stylus", "postcss", "coffeescript", "pug",
      "globalStyle", "replace", "babel" }

\* The code an external transformer produces: the replace transformer
\* rewrites the text (x becomes y), a compiler's output is marked by its name.
TransformCode(name, c) ==
    IF name = "replace"
    THEN [ i \in 1..Len(c) |-> IF c[i] = "x" THEN "y" ELSE c[i] ]
    ELSE << name >> \o c

runTransformer(name, options, args, ext) ==
    LET call == Ev("runTransformer", name, options.kind, args.content, args.map, None, None)
    IN  IF options.kind = "false"
        THEN [ res |-> Processed(args.content, None, None, None),
               calls |-> << call >> ]
        ELSE IF options.kind = "function"
        THEN [ res |-> Processed(<< options.fn >> \o args.content, Some(options.fn),
                                 ext.dependencies, ext.diagnostics),
               calls |-> << call,
                            Ev("function", name, options.kind, args.content, args.map,
                               ext.dependencies, ext.diagnostics) >> ]
        ELSE IF name \notin TransformerModules
        THEN [ res |-> Failed("notfound"),
               calls |-> << call,
                            Ev("import", name, options.kind, << >>, None, None, None) >> ]
        ELSE [ res |-> Processed(TransformCode(name, args.content), Some(name),
                                 ext.dependencies, ext.diagnostics),
               calls |-> << call,
                            Ev("import", name, options.kind, << >>, None, None, None),
                            Ev("transformer", name, options.kind, args.content, args.map,
                               ext.dependencies, ext.diagnostics) >> ]

--------------------------------------------------------------------------
(* autoPreprocess: defaultLanguages and getTransformerTo *)

Categories == { "markup", "style", "script" }

BaseLanguage(type) ==
    CASE type = "markup" -> "html"
      [] type = "style" -> "css"
      [] type = "script" -> "javascript"

\* { markup: 'html', style: 'css', script: 'javascript', ...defaults }: a key
\* that `defaults` holds overrides the built-in one, whatever its value.
defaultLanguages(type) ==
    IF defaults[type] = Absent THEN BaseLanguage(type) ELSE defaults[type]

includes(list, x) == \E i \in 1..Len(list) : list[i] = x

\* if (lang == null || alias == null) { alias = defaultLanguages[type]; ... }
NeedsFallback(info) == info.lang = Null \/ info.alias = Null

EffectiveAlias(type, info) ==
    IF NeedsFallback(info) THEN defaultLanguages(type) ELSE info.alias

EffectiveLang(type, info) ==
    IF NeedsFallback(info) THEN getLanguageFromAlias(defaultLanguages(type))
    ELSE info.lang

\* preserve.includes(lang) || preserve.includes(alias)
IsPreserved(lang, alias) == includes(preserve, lang) \/ includes(preserve, alias)

\* A preserved block that still reports the tag's dependencies.
PreservedResult_keepsDependencies(info) ==
    Processed(info.content, None, Some(info.dependencies), None)

\* return { code: content }
PreservedResult(info) == Processed(info.content, None, None, None)

\* A target test on the alias instead of the language.
SkipsTransform_byAlias(lang, alias, targetLanguage) == alias = targetLanguage

\* if (lang === targetLanguage)
SkipsTransform(lang, alias, targetLanguage) == lang = targetLanguage

\* return { code: content, dependencies }
TargetResult(prepared, info) ==
    Processed(prepared, None, Some(info.dependencies), None)

\* { ...transformed, dependencies: concat(dependencies, transformed.dependencies) }
TransformedResult(transformed, info) ==
    IF transformed.error # "none" THEN transformed
    ELSE [ transformed EXCEPT !.dependencies =
             concat(Some(info.dependencies), transformed.dependencies) ]

getTransformerTo(type, targetLanguage, file, ext) ==
    LET \* await getTagInfo(svelteFile)
        info == getTagInfo(file)
        alias == EffectiveAlias(type, info)
        lang == EffectiveLang(type, info)
        tagCall == Ev("getTagInfo", type, "", file.content, None,
                      Some(info.dependencies), None)
        transformerOptions == getTransformerOptions(lang, alias)
        prepared == prepareContent(transformerOptions, info.content)
        optCalls == << Ev("getTransformerOptions", lang, transformerOptions.kind,
                          << >>, None, None, None),
                       Ev("prepareContent", lang, transformerOptions.kind,
                          info.content, None, None, None) >>
        run == runTransformer(lang, transformerOptions,
                              [ content |-> prepared, map |-> None ], ext)
    IN  IF IsPreserved(lang, alias)
        THEN [ lang |-> lang, alias |-> alias, res |-> PreservedResult(info),
               calls |-> << tagCall >> ]
        ELSE IF SkipsTransform(lang, alias, targetLanguage)
        THEN [ lang |-> lang, alias |-> alias, res |-> TargetResult(prepared, info),
               calls |-> << tagCall >> \o optCalls ]
        ELSE [ lang |-> lang, alias |-> alias,
               res |-> TransformedResult(run.res, info),
               calls |-> << tagCall >> \o optCalls \o run.calls ]

--------------------------------------------------------------------------
(* autoPreprocess: markupPattern, the attribute string and the splice *)

OpenTag == << "<", "t" >>
CloseTag == << "<", "/", "t", ">" >>
SelfClose == << "/", ">" >>

IsAt(s, i, pat) ==
    /\ i >= 1
    /\ i + Len(pat) - 1 <= Len(s)
    /\ SubSeq(s, i, i + Len(pat) - 1) = pat

Min(S) == CHOOSE x \in S : \A y \in S : x <= y
Max(S) == CHOOSE x \in S : \A y \in S : x >= y

\* Where a closing tag starts after position j.
Closings(s, j) == { k \in (j + 1)..Len(s) : IsAt(s, k, CloseTag) }

\* Where the lazily matched attribute string of an opening tag at i can end:
\* at a `>` that some closing tag follows, or at a `/>`.
AttrEnds(s, i) ==
    { j \in (i + 2)..Len(s) :
        (s[j] = ">" /\ Closings(s, j) # {}) \/ IsAt(s, j, SelfClose) }

Starts(s) == { i \in 1..Len(s) : IsAt(s, i, OpenTag) /\ AttrEnds(s, i) # {} }

NoMatch ==
    [ found |-> FALSE, index |-> 0, fullMatch |-> << >>, attributesStr |-> << >>,
      templateCode |-> << >>, closed |-> FALSE ]

\* A pattern whose inner group is lazy: it stops at the first closing tag.
markupPattern_lazyInner(s) ==
    IF Starts(s) = {} THEN NoMatch
    ELSE LET i == Min(Starts(s))
             j == Min(AttrEnds(s, i))
             k == Min(Closings(s, j))
         IN  IF s[j] = ">"
             THEN [ found |-> TRUE, index |-> i, fullMatch |-> SubSeq(s, i, k + 3),
                    attributesStr |-> SubSeq(s, i + 2, j - 1),
                    templateCode |-> SubSeq(s, j + 1, k - 1), closed |-> TRUE ]
             ELSE [ found |-> TRUE, index |-> i, fullMatch |-> SubSeq(s, i, j + 1),
                    attributesStr |-> SubSeq(s, i + 2, j - 1),
                    templateCode |-> UndefContent, closed |-> FALSE ]

\* content.match(/<t([\s\S]*?)(?:>([\s\S]*)<\/t>|\/>)/): the leftmost start, the
\* shortest attribute string, and for the open form the longest inner text.
\* index is 1-based; the second group of the self-closing form is undefined.
markupPattern(s) ==
    IF Starts(s) = {} THEN NoMatch
    ELSE LET i == Min(Starts(s))
             j == Min(AttrEnds(s, i))
             k == Max(Closings(s, j))
         IN  IF s[j] = ">"
             THEN [ found |-> TRUE, index |-> i, fullMatch |-> SubSeq(s, i, k + 3),
                    attributesStr |-> SubSeq(s, i + 2, j - 1),
                    templateCode |-> SubSeq(s, j + 1, k - 1), closed |-> TRUE ]
             ELSE [ found |-> TRUE, index |-> i, fullMatch |-> SubSeq(s, i, j + 1),
                    attributesStr |-> SubSeq(s, i + 2, j - 1),
                    templateCode |-> UndefContent, closed |-> FALSE ]

\* attributesStr.split(/\s+/).filter(Boolean)
RECURSIVE SplitWs(_)
SplitWs(s) ==
    IF s = << >> THEN << >>
    ELSE IF s[1] = " " THEN SplitWs(Tail(s))
    ELSE LET stops == { n \in 1..Len(s) : s[n] = " " }
             n == IF stops = {} THEN Len(s) + 1 ELSE Min(stops)
         IN  << SubSeq(s, 1, n - 1) >> \o SplitWs(SubSeq(s, n, Len(s)))

\* const [name, value] = attr.split('=')
AttrName(tok) ==
    LET eqs == { n \in 1..Len(tok) : tok[n] = "=" }
    IN  IF eqs = {} THEN tok ELSE SubSeq(tok, 1, Min(eqs) - 1)

AttrValue(tok) ==
    LET eqs == { n \in 1..Len(tok) : tok[n] = "=" }
        rest == SubSeq(tok, Min(eqs) + 1, Len(tok))
        eqs2 == { n \in 1..Len(rest) : rest[n] = "=" }
    IN  IF eqs = {} THEN << >>
        ELSE IF eqs2 = {} THEN rest ELSE SubSeq(rest, 1, Min(eqs2) - 1)

\* value.replace(/['"]/g, '')
RECURSIVE StripQuotes(_)
StripQuotes(v) ==
    IF v = << >> THEN << >>
    ELSE IF Head(v) = "'" THEN StripQuotes(Tail(v))
    ELSE << Head(v) >> \o StripQuotes(Tail(v))

\* The language an attribute value names: p abbreviates pug.
LangName(v) == IF v = << "p" >> THEN "pug" ELSE "other"

NoAttributes == [ lang |-> Absent, src |-> Absent ]

\* The reduce over the tokens: a later token of the same name overwrites an
\* earlier one; a token without a value maps to true.
ParseAttributes(attributesStr) ==
    LET toks == SplitWs(attributesStr)
        langs == { n \in 1..Len(toks) : AttrName(toks[n]) = << "l" >> }
        v == AttrValue(toks[Max(langs)])
    IN  [ lang |-> IF langs = {} THEN Absent
                   ELSE IF v = << >> THEN "true"
                   ELSE LangName(StripQuotes(v)),
          src |-> Absent ]

\* A splice that forgets the match's start offset in the tail.
Splice_noIndex(c, m, code) ==
    SubSeq(c, 1, m.index - 1) \o code \o SubSeq(c, Len(m.fullMatch) + 1, Len(c))

\* content.slice(0, index) + code + content.slice(index + fullMatch.length)
Splice(c, m, code) ==
    SubSeq(c, 1, m.index - 1) \o code
        \o SubSeq(c, m.index + Len(m.fullMatch), Len(c))

--------------------------------------------------------------------------
(* Bounds and the inputs drawn *)

MaxSegs == 4

\* The pieces documents are made of.
Segs ==
    { OpenTag, << ">" >>, << "<", "t", ">" >>, CloseTag, SelfClose, << "x" >>,
      << " ", "l", "=", "'", "p", "'" >> }

RECURSIVE DocsOf(_)
DocsOf(n) ==
    IF n = 0 THEN { << >> }
    ELSE LET shorter == DocsOf(n - 1)
         IN  shorter \cup { d \o g : d \in shorter, g \in Segs }

Docs == DocsOf(MaxSegs)

LangPug == << " ", "l", "=", "'", "p", "'" >>

\* A few documents: no container, a pug template inside text, a plain
\* template, a self-closing one, and one with two closing tags.
SampleDocs ==
    { << "x" >>,
      << "x" >> \o OpenTag \o LangPug \o << ">", "x" >> \o CloseTag \o << "x" >>,
      OpenTag \o << ">", "x" >> \o CloseTag,
      OpenTag \o LangPug \o SelfClose,
      << "x" >> \o OpenTag \o << ">", "x" >> \o CloseTag \o CloseTag \o << "x" >> }

File(c, lang, src) ==
    [ content |-> c, attributes |-> [ lang |-> lang, src |-> src ] ]

Contents == { << "x" >>, << BOM, "x" >> }

StyleFiles ==
    { File(c, l, s) : c \in Contents, l \in { Absent, "css", "scss", "sass" },
                      s \in { Absent, "b" } }

ScriptFiles ==
    { File(c, l, s) : c \in Contents, l \in { Absent, "javascript", "js", "ts" },
                      s \in { Absent, "b" } }

OptionNames ==
    { "scss", "sass", "postcss", "globalStyle", "typescript", "ts", "babel",
      "pug", "replace" }

NoOptions == [ n \in OptionNames |-> UndefOpt ]
SomeObj == [ EmptyObj EXCEPT !["k"] = "true" ]
NoDefaults == [ c \in Categories |-> Absent ]

NoQuery == [ name |-> "", alias |-> "", result |-> UndefOpt ]
NoCur == [ code |-> << >>, map |-> None, dependencies |-> None, diagnostics |-> None ]
NoPiped == [ lang |-> "", alias |-> "", res |-> NoResult, calls |-> << >> ]

InitInvocation ==
    /\ pc = "idle"
    /\ svelteFile = File(<< >>, Absent, Absent)
    /\ content = << >>
    /\ templateMatch = NoMatch
    /\ transformResult = NoPiped
    /\ cur = NoCur
    /\ calls = << >>
    /\ result = NoResult

InitSass ==
    /\ sass = Null
    /\ inv = << >>
    /\ importCalls = << >>
    /\ started = 0

\* autoPreprocess(options) for a host that then calls style()
InitStyle ==
    /\ entry = "style"
    /\ \E scss \in { UndefOpt, FalseOpt, FnOpt("fn"), ObjOpt(SomeObj) },
          postcss \in { UndefOpt, FalseOpt, TrueOpt, ObjOpt(SomeObj) },
          globalStyle \in { UndefOpt, FalseOpt } :
          transformers = [ NoOptions EXCEPT !["scss"] = scss, !["postcss"] = postcss,
                                            !["globalStyle"] = globalStyle ]
    /\ preserve \in { << >>, << "scss" >>, << "sass" >>, << "css" >> }
    /\ \E d \in { Absent, Undef, "sass" } : defaults = [ NoDefaults EXCEPT !["style"] = d ]
    /\ sourceMap = FALSE
    /\ installed \in BOOLEAN

\* autoPreprocess(options) for a host that then calls script()
InitScript ==
    /\ entry = "script"
    /\ \E typescript \in { UndefOpt, FalseOpt, FnOpt("fn") },
          babel \in { UndefOpt, ObjOpt(SomeObj) } :
          transformers = [ NoOptions EXCEPT !["typescript"] = typescript,
                                            !["babel"] = babel ]
    /\ preserve \in { << >>, << "ts" >>, << "javascript" >> }
    /\ \E d \in { Absent, Undef, "ts" } : defaults = [ NoDefaults EXCEPT !["script"] = d ]
    /\ sourceMap = FALSE
    /\ installed = TRUE

\* autoPreprocess(options) for a host that then calls markup()
InitMarkup ==
    /\ entry = "markup"
    /\ \E pug \in { UndefOpt, FalseOpt, FnOpt("fn") },
          replace \in { UndefOpt, FalseOpt, ObjOpt(SomeObj) } :
          transformers = [ NoOptions EXCEPT !["pug"] = pug, !["replace"] = replace ]
    /\ preserve \in { << >>, << "pug" >>, << "html" >> }
    /\ \E d \in { Absent, Undef, "pug" } : defaults = [ NoDefaults EXCEPT !["markup"] = d ]
    /\ sourceMap = FALSE
    /\ installed = TRUE

\* autoPreprocess(options) for the documents of the markup splicer
InitSplicer ==
    /\ entry = "markup"
    /\ \E replace \in { UndefOpt, ObjOpt(SomeObj) } :
          transformers = [ NoOptions EXCEPT !["replace"] = replace ]
    /\ preserve = << >>
    /\ defaults = NoDefaults
    /\ sourceMap = FALSE
    /\ installed = TRUE

--------------------------------------------------------------------------
(* style() *)

Locals(res) ==
    [ code |-> res.code, map |-> res.map, dependencies |-> res.dependencies,
      diagnostics |-> res.diagnostics ]

\* A postcss stage that overwrites the dependencies instead of appending.
ThreadPostcss_overwrites(locals, transformed) ==
    [ locals EXCEPT !.code = transformed.code, !.map = transformed.map,
                    !.dependencies = transformed.dependencies ]

\* code = transformed.code; map = transformed.map;
\* dependencies = concat(dependencies, transformed.dependencies)
ThreadPostcss(locals, transformed) ==
    [ locals EXCEPT !.code = transformed.code, !.map = transformed.map,
                    !.dependencies =
                       concat(locals.dependencies, transformed.dependencies) ]

\* code = transformed.code; map = transformed.map
ThreadGlobalStyle(locals, transformed) ==
    [ locals EXCEPT !.code = transformed.code, !.map = transformed.map ]

\* code, map, and both lists concatenated
ThreadBabel(locals, transformed) ==
    [ code |-> transformed.code, map |-> transformed.map,
      dependencies |-> concat(locals.dependencies, transformed.dependencies),
      diagnostics |-> concat(locals.diagnostics, transformed.diagnostics) ]

\* A postcss gate that forgets the installation check.
PostcssRuns_uninstalled == Truthy(Lookup("postcss"))

\* if (await hasDepInstalled('postcss')) { if (transformers.postcss) {
PostcssRuns == installed /\ Truthy(Lookup("postcss"))

\* await cssTransformer({ content, attributes, filename })
StylePipeline ==
    /\ pc = "idle" /\ entry = "style"
    /\ \E file \in StyleFiles, ext \in Exts :
          LET r == getTransformerTo("style", "css", file, ext)
          IN  /\ svelteFile' = file
              /\ transformResult' = r
              /\ calls' = r.calls
              /\ IF r.res.error # "none"
                 THEN pc' = "done" /\ result' = r.res /\ cur' = cur
                 ELSE /\ pc' = "piped"
                      /\ result' = result
                      \* let { code, map, dependencies } = transformResult
                      /\ cur' = [ Locals(r.res) EXCEPT !.diagnostics = None ]
    /\ UNCHANGED << cfgVars, content, templateMatch, optQuery, sassVars >>

\* if (await hasDepInstalled('postcss')) { if (transformers.postcss) ...
StylePostcss ==
    /\ pc = "piped" /\ entry = "style"
    /\ PostcssRuns
    /\ \E ext \in Exts :
          LET r == runTransformer("postcss", getTransformerOptions("postcss", Undef),
                                  [ content |-> cur.code, map |-> cur.map ], ext)
          IN  /\ calls' = calls \o r.calls
              /\ IF r.res.error # "none"
                 THEN pc' = "done" /\ result' = r.res /\ cur' = cur
                 ELSE /\ pc' = "postcssed"
                      /\ result' = result
                      /\ cur' = ThreadPostcss(cur, r.res)
    /\ UNCHANGED << cfgVars, svelteFile, content, templateMatch, transformResult,
                    optQuery, sassVars >>

AtGlobalStyle ==
    IF Truthy(Lookup("postcss")) THEN pc = "postcssed" ELSE pc = "piped"

\* ... const transformed = await runTransformer('globalStyle', ...) }
StyleGlobalStyle ==
    /\ entry = "style"
    /\ installed
    /\ AtGlobalStyle
    /\ \E ext \in Exts :
          LET r == runTransformer("globalStyle",
                                  getTransformerOptions("globalStyle", Undef),
                                  [ content |-> cur.code, map |-> cur.map ], ext)
          IN  /\ calls' = calls \o r.calls
              /\ IF r.res.error # "none"
                 THEN pc' = "done" /\ result' = r.res /\ cur' = cur
                 ELSE /\ pc' = "globaled"
                      /\ result' = result
                      /\ cur' = ThreadGlobalStyle(cur, r.res)
    /\ UNCHANGED << cfgVars, svelteFile, content, templateMatch, transformResult,
                    optQuery, sassVars >>

AtStyleReturn == IF installed THEN pc = "globaled" ELSE pc = "piped"

\* return { code, map, dependencies }
StyleReturn ==
    /\ entry = "style"
    /\ AtStyleReturn
    /\ pc' = "done"
    /\ result' = Processed(cur.code, cur.map, cur.dependencies, None)
    /\ UNCHANGED << cfgVars, svelteFile, content, templateMatch, transformResult,
                    cur, calls, optQuery, sassVars >>

--------------------------------------------------------------------------
(* script() *)

\* await scriptTransformer({ content, attributes, filename })
ScriptPipeline ==
    /\ pc = "idle" /\ entry = "script"
    /\ \E file \in ScriptFiles, ext \in Exts :
          LET r == getTransformerTo("script", "javascript", file, ext)
          IN  /\ svelteFile' = file
              /\ transformResult' = r
              /\ calls' = r.calls
              /\ IF r.res.error # "none"
                 THEN pc' = "done" /\ result' = r.res /\ cur' = cur
                 ELSE /\ pc' = "piped"
                      /\ result' = result
                      \* let { code, map, dependencies, diagnostics } = transformResult
                      /\ cur' = Locals(r.res)
    /\ UNCHANGED << cfgVars, content, templateMatch, optQuery, sassVars >>

\* if (transformers.babel) { ... }
ScriptBabel ==
    /\ pc = "piped" /\ entry = "script"
    /\ Truthy(Lookup("babel"))
    /\ \E ext \in Exts :
          LET r == runTransformer("babel", getTransformerOptions("babel", Undef),
                                  [ content |-> cur.code, map |-> cur.map ], ext)
          IN  /\ calls' = calls \o r.calls
              /\ IF r.res.error # "none"
                 THEN pc' = "done" /\ result' = r.res /\ cur' = cur
                 ELSE /\ pc' = "babeled"
                      /\ result' = result
                      /\ cur' = ThreadBabel(cur, r.res)
    /\ UNCHANGED << cfgVars, svelteFile, content, templateMatch, transformResult,
                    optQuery, sassVars >>

AtScriptReturn == IF Truthy(Lookup("babel")) THEN pc = "babeled" ELSE pc = "piped"

\* return { code, map, dependencies, diagnostics }
ScriptReturn ==
    /\ entry = "script"
    /\ AtScriptReturn
    /\ pc' = "done"
    /\ result' = Processed(cur.code, cur.map, cur.dependencies, cur.diagnostics)
    /\ UNCHANGED << cfgVars, svelteFile, content, templateMatch, transformResult,
                    cur, calls, optQuery, sassVars >>

--------------------------------------------------------------------------
(* markup() *)

\* if (transformers.replace) { content = (await runTransformer('replace', ...)).code }
MarkupPrepassOf(docs) ==
    /\ pc = "idle" /\ entry = "markup"
    /\ \E doc \in docs, ext \in Exts :
          LET r == runTransformer("replace", Lookup("replace"),
                                  [ content |-> doc, map |-> None ], ext)
          IN  /\ svelteFile' = File(doc, Absent, Absent)
              /\ IF Truthy(Lookup("replace"))
                 THEN content' = r.res.code /\ calls' = r.calls
                 ELSE content' = doc /\ calls' = << >>
    /\ pc' = "prepassed"
    /\ UNCHANGED << cfgVars, templateMatch, transformResult, cur, result, optQuery,
                    sassVars >>

MarkupPrepass == MarkupPrepassOf(Docs)

MarkupPrepassSample == MarkupPrepassOf(SampleDocs)

\* const templateMatch = content.match(markupPattern); then markupTransformer
\* on the whole content (no match) or on the template code with its attributes
MarkupTransform ==
    /\ pc = "prepassed" /\ entry = "markup"
    /\ \E ext \in Exts :
          LET m == markupPattern(content)
              file == IF m.found
                      THEN [ content |-> m.templateCode,
                             attributes |-> ParseAttributes(m.attributesStr) ]
                      ELSE [ content |-> content, attributes |-> NoAttributes ]
              r == getTransformerTo("markup", "html", file, ext)
          IN  /\ templateMatch' = m
              /\ transformResult' = r
              /\ calls' = calls \o r.calls
              /\ IF r.res.error # "none"
                 THEN pc' = "done" /\ result' = r.res /\ cur' = cur
                 ELSE /\ pc' = "piped"
                      /\ result' = result
                      /\ cur' = IF m.found
                                THEN [ Locals(r.res) EXCEPT !.diagnostics = None ]
                                ELSE Locals(r.res)
    /\ UNCHANGED << cfgVars, svelteFile, content, optQuery, sassVars >>

\* return markupTransformer(...) (no match), or the spliced document
MarkupReturn ==
    /\ pc = "piped" /\ entry = "markup"
    /\ pc' = "done"
    /\ result' = IF templateMatch.found
                 THEN Processed(Splice(content, templateMatch, cur.code), cur.map,
                                cur.dependencies, None)
                 ELSE transformResult.res
    /\ UNCHANGED << cfgVars, svelteFile, content, templateMatch, transformResult,
                    cur, calls, optQuery, sassVars >>

--------------------------------------------------------------------------
(* The specifications of the dispatcher *)

Init ==
    /\ InitStyle \/ InitScript \/ InitMarkup
    /\ InitInvocation
    /\ optQuery = NoQuery
    /\ InitSass

Next ==
    \/ StylePipeline \/ StylePostcss \/ StyleGlobalStyle \/ StyleReturn
    \/ ScriptPipeline \/ ScriptBabel \/ ScriptReturn
    \/ MarkupPrepassSample \/ MarkupTransform \/ MarkupReturn

Spec == Init /\ [][Next]_vars

InitDocs ==
    /\ InitSplicer
    /\ InitInvocation
    /\ optQuery = NoQuery
    /\ InitSass

NextMarkup == MarkupPrepass \/ MarkupTransform \/ MarkupReturn

SpecMarkup == InitDocs /\ [][NextMarkup]_vars

--------------------------------------------------------------------------
(* getTransformerOptions on its own: every kind of option for a name and  *)
(* for its alias                                                           *)

OptionValues ==
    { UndefOpt, FalseOpt, TrueOpt, FnOpt("f"), FnOpt("g") }
        \cup { ObjOpt(o) : o \in Objects }

InitOptions ==
    /\ entry = "none"
    /\ \E n \in OptionValues, a \in OptionValues :
          transformers = [ NoOptions EXCEPT !["scss"] = n, !["sass"] = a ]
    /\ preserve = << >>
    /\ defaults = NoDefaults
    /\ sourceMap \in BOOLEAN
    /\ installed = TRUE
    /\ InitInvocation
    /\ optQuery = NoQuery
    /\ InitSass

ResolveOptions ==
    /\ optQuery = NoQuery
    /\ \E name \in { "scss", "sass", "pug" }, alias \in { "scss", "sass", "pug", Undef } :
          optQuery' = [ name |-> name, alias |-> alias,
                        result |-> getTransformerOptions(name, alias) ]
    /\ UNCHANGED << cfgVars, invVars, sassVars >>

SpecOptions == InitOptions /\ [][ResolveOptions]_vars

--------------------------------------------------------------------------
(* transformers/scss: the transformer and the module-level `sass` *)

MaxInvocations == 3

Callers == { "c1", "c2" }

\* mod.default of the module importAny('sass', 'node-sass') resolves to
FallbackImpl == "fallback"
PassedImpl == "passed"

IdleInv ==
    [ pc |-> "idle", passed |-> Null, data |-> None, renderSync |-> FALSE,
      content |-> << >>, implementation |-> Null, sassData |-> << >>,
      result |-> [ code |-> None, map |-> None, dependencies |-> None,
                   error |-> "pending" ] ]

\* What the sass implementation's render calls back with.
RenderOutcomes == { [ err |-> e, includedFiles |-> f ] :
                      e \in BOOLEAN, f \in { << >>, << "f" >> } }

getResultForResolve(r) ==
    [ code |-> Some(r.css), map |-> r.map, dependencies |-> Some(r.includedFiles),
      error |-> "none" ]

SassResult(data, outcome) ==
    [ css |-> << "css" >> \o data, map |-> Some("map"),
      includedFiles |-> outcome.includedFiles ]

SassRejected ==
    [ code |-> None, map |-> None, dependencies |-> None, error |-> "sass" ]

\* From `sassOptions.data = ...` to the return, with the implementation chosen.
Compile(rec, implementation, outcome) ==
    LET \* options.data ? options.data + content : content
        data == IF rec.data # None /\ rec.data[1] # << >>
                THEN rec.data[1] \o rec.content ELSE rec.content
        chosen == [ rec EXCEPT !.implementation = implementation, !.sassData = data ]
    IN  IF Len(data) = 0
        THEN \* return { code: options.data }
             [ chosen EXCEPT !.pc = "done",
                             !.result = [ code |-> rec.data, map |-> None,
                                          dependencies |-> None, error |-> "none" ] ]
        ELSE IF rec.renderSync
        THEN [ chosen EXCEPT !.pc = "done",
                             !.result = IF outcome.err THEN SassRejected
                                        ELSE getResultForResolve(SassResult(data, outcome)) ]
        ELSE [ chosen EXCEPT !.pc = "rendering" ]

\* An implementation choice that ignores the cache.
ChooseImplementation_noCache(passedImplementation) == passedImplementation

\* passedImplementation ?? sass
ChooseImplementation(passedImplementation) ==
    IF passedImplementation # Null THEN passedImplementation ELSE sass

\* transformer({ content, filename, options }) up to its first await
SassStart(p) ==
    /\ inv[p].pc \in { "idle", "done" }
    /\ started < MaxInvocations
    /\ started' = started + 1
    /\ \E passed \in { Null, PassedImpl }, data \in { None, Some(<< >>), Some(<< "d" >>) },
          renderSync \in BOOLEAN, c \in { << >>, << "c" >> }, outcome \in RenderOutcomes :
          LET rec == [ IdleInv EXCEPT !.passed = passed, !.data = data,
                                      !.renderSync = renderSync, !.content = c ]
              implementation == ChooseImplementation(passed)
          IN  IF implementation = Null
              THEN \* await importAny('sass', 'node-sass')
                   /\ inv' = [ inv EXCEPT ![p] = [ rec EXCEPT !.pc = "importing" ] ]
                   /\ importCalls' = Append(importCalls, [ caller |-> p, cache |-> sass ])
              ELSE /\ inv' = [ inv EXCEPT ![p] = Compile(rec, implementation, outcome) ]
                   /\ importCalls' = importCalls
    /\ UNCHANGED << sass, cfgVars, invVars, optQuery >>

\* implementation = sass = mod.default, and on to the compile
SassImported(p) ==
    /\ inv[p].pc = "importing"
    /\ sass' = FallbackImpl
    /\ \E outcome \in RenderOutcomes :
          inv' = [ inv EXCEPT ![p] = Compile(inv[p], FallbackImpl, outcome) ]
    /\ UNCHANGED << importCalls, started, cfgVars, invVars, optQuery >>

\* the callback of implementation.render(sassOptions, (err, result) => ...)
SassRendered(p) ==
    /\ inv[p].pc = "rendering"
    /\ \E outcome \in RenderOutcomes :
          inv' = [ inv EXCEPT ![p] =
                     [ inv[p] EXCEPT !.pc = "done",
                                     !.result = IF outcome.err THEN SassRejected
                                                ELSE getResultForResolve(
                                                       SassResult(inv[p].sassData, outcome)) ] ]
    /\ UNCHANGED << sass, importCalls, started, cfgVars, invVars, optQuery >>

InitScss ==
    /\ entry = "none"
    /\ transformers = NoOptions
    /\ preserve = << >>
    /\ defaults = NoDefaults
    /\ sourceMap = FALSE
    /\ installed = TRUE
    /\ InitInvocation
    /\ optQuery = NoQuery
    /\ sass = Null
    /\ inv = [ p \in Callers |-> IdleInv ]
    /\ importCalls = << >>
    /\ started = 0

NextScss == \E p \in Callers : SassStart(p) \/ SassImported(p) \/ SassRendered(p)

SpecScss == InitScss /\ [][NextScss]_vars

--------------------------------------------------------------------------
(* Properties *)

\* The per-block pipeline has returned.
Piped == transformResult # NoPiped

\* The content the pipeline was called with (what getTagInfo was given).
PipelineInput == transformResult.calls[1].content

InvokerCalls == { "runTransformer", "import", "transformer", "function" }

NoInvoker(c) == \A i \in 1..Len(c) : c[i].fn \notin InvokerCalls

IsRun(e, name) == e.fn = "runTransformer" /\ e.name = name

RunsOf(c, name) == { i \in 1..Len(c) : IsRun(c[i], name) }

RECURSIVE ConcatAll(_)
ConcatAll(lists) ==
    IF lists = << >> THEN None
    ELSE LET h == Head(lists)
             rest == ConcatAll(Tail(lists))
         IN  IF h = None THEN rest
             ELSE IF rest = None THEN h
             ELSE Some(h[1] \o rest[1])

DepsOf(c) == [ i \in 1..Len(c) |-> c[i].deps ]
DiagsOf(c) == [ i \in 1..Len(c) |-> c[i].diags ]

Returned == pc = "done" /\ result.error = "none"

-----------------------------------------------------------------------
(* C1 *)

SpanEnd == templateMatch.index + Len(templateMatch.fullMatch)
Before(doc) == SubSeq(doc, 1, templateMatch.index - 1)
After(doc) == SubSeq(doc, SpanEnd, Len(doc))
Spliced == Returned /\ entry = "markup" /\ templateMatch.found

\* C1 as stated: markup() returns the input document with exactly the matched
\* span replaced by the transformed inner code, the text before and after the
\* span being that of the input.
C1_SpliceKeepsInput ==
    Spliced =>
        result.code = Before(svelteFile.content) \o cur.code \o After(svelteFile.content)

\* C1 amended: markup() returns the document as it stands after the optional
\* replace pre-pass (the input itself when no replace option is configured)
\* with exactly the matched span, from the opening tag to its closing tag or
\* `/>`, replaced by the transformed inner code; the text before and after
\* the span is kept character for character.
C1_SpliceKeepsSurroundings ==
    Spliced =>
        LET i == templateMatch.index
            n == Len(cur.code)
        IN  /\ IsAt(content, i, OpenTag)
            /\ IF templateMatch.closed
               THEN IsAt(content, SpanEnd - Len(CloseTag), CloseTag)
               ELSE IsAt(content, SpanEnd - Len(SelfClose), SelfClose)
            /\ cur.code = transformResult.res.code
            /\ PipelineInput = templateMatch.templateCode
            /\ Len(result.code) = Len(content) - Len(templateMatch.fullMatch) + n
            /\ SubSeq(result.code, 1, i - 1) = Before(content)
            /\ SubSeq(result.code, i, i + n - 1) = cur.code
            /\ SubSeq(result.code, i + n, Len(result.code)) = After(content)
            /\ (~Truthy(Lookup("replace")) => content = svelteFile.content)

\* A template inside text, with the literal <t> in the text after it, spliced
\* after a configured replace pre-pass.
C1_Witness ==
    /\ Spliced
    /\ templateMatch.closed
    /\ templateMatch.index > 1
    /\ Truthy(Lookup("replace"))
    /\ \E k \in 1..Len(After(content)) : IsAt(After(content), k, << "<", "t", ">" >>)

-----------------------------------------------------------------------
(* C7 *)

\* Where the `>` that ends the opening tag stands.
AttrEnd == templateMatch.index + Len(OpenTag) + Len(templateMatch.attributesStr)
Matched == entry = "markup" /\ pc \in { "piped", "done" } /\ templateMatch.closed

-----------------------------------------------------------------------
(* C2 *)

AtTarget == Piped /\ transformResult.lang = BaseLanguage(entry)

\* C2 as stated: a block already in the target language comes back as the
\* input content, unchanged, and the invoker is never called.
C2_TargetReturnsInput ==
    AtTarget =>
        /\ transformResult.res.code = PipelineInput
        /\ NoInvoker(transformResult.calls)

\* C2 amended: a block already in the target language never reaches
\* runTransformer and loads no transformer module; its code is the input
\* content as prepareContent leaves it under the resolved options (the input
\* itself for a preserved block), so it equals the input only when content
\* preparation changes nothing.
C2_TargetReturnsPrepared ==
    AtTarget =>
        LET lang == transformResult.lang
            alias == transformResult.alias
        IN  /\ NoInvoker(transformResult.calls)
            /\ transformResult.res.error = "none"
            /\ transformResult.res.code =
                  IF IsPreserved(lang, alias) THEN PipelineInput
                  ELSE prepareContent(getTransformerOptions(lang, alias), PipelineInput)

\* A script block tagged with the alias js: target language, content that
\* preparation changes.
C2_Witness ==
    /\ AtTarget
    /\ transformResult.alias # transformResult.lang
    /\ ~IsPreserved(transformResult.lang, transformResult.alias)
    /\ transformResult.res.code # PipelineInput

-----------------------------------------------------------------------
(* C3 *)

\* C3: a block whose language or alias is in the preserve list comes back as
\* its input content with no dependencies field, and after getTagInfo nothing
\* runs for it: no option resolution, no content preparation, no transformer.
C3_PreservedUntouched ==
    (Piped /\ IsPreserved(transformResult.lang, transformResult.alias)) =>
        /\ transformResult.res.code = PipelineInput
        /\ transformResult.res.dependencies = None
        /\ transformResult.res.error = "none"
        /\ \A i \in 1..Len(transformResult.calls) :
              transformResult.calls[i].fn = "getTagInfo"

\* A block preserved by its alias alone, whose tag carries a dependency and
\* whose content preparation would change.
C3_Witness ==
    /\ Piped
    /\ includes(preserve, transformResult.alias)
    /\ ~includes(preserve, transformResult.lang)
    /\ transformResult.calls[1].deps = Some(<< "b" >>)
    /\ PipelineInput[1] = BOM
    /\ pc = "done"

-----------------------------------------------------------------------
(* C4 *)

\* The step appends one runTransformer call of `name` on the current code
\* and map, and the locals take that transformer's output.
RunsStage(name) ==
    /\ Len(calls') > Len(calls)
    /\ SubSeq(calls', 1, Len(calls)) = calls
    /\ IsRun(calls'[Len(calls) + 1], name)
    /\ calls'[Len(calls) + 1].content = cur.code
    /\ calls'[Len(calls) + 1].map = cur.map
    /\ RunsOf(SubSeq(calls', Len(calls) + 2, Len(calls')), name) = {}
    /\ cur'.code \in { cur.code, << name >> \o cur.code }

StyleStep ==
    /\ pc = "idle" =>
          /\ calls' = transformResult'.calls
          /\ RunsOf(calls', "postcss") = {} /\ RunsOf(calls', "globalStyle") = {}
          /\ (pc' = "piped" =>
                /\ cur'.code = transformResult'.res.code
                /\ cur'.map = transformResult'.res.map)
    /\ pc = "piped" =>
          IF installed /\ Truthy(Lookup("postcss"))
          THEN pc' = "postcssed" /\ RunsStage("postcss")
          ELSE IF installed
          THEN pc' = "globaled" /\ RunsStage("globalStyle")
          ELSE /\ pc' = "done"
               /\ calls' = calls
               /\ result' = Processed(transformResult.res.code, transformResult.res.map,
                                       transformResult.res.dependencies, None)
    /\ pc = "postcssed" => pc' = "globaled" /\ RunsStage("globalStyle")
    /\ pc = "globaled" =>
          /\ pc' = "done"
          /\ calls' = calls
          /\ result'.error = "none"
          /\ result'.code = cur.code /\ result'.map = cur.map

StyleGates ==
    (entry = "style" /\ Returned) =>
        /\ Cardinality(RunsOf(calls, "postcss")) =
              IF installed /\ Truthy(Lookup("postcss")) THEN 1 ELSE 0
        /\ Cardinality(RunsOf(calls, "globalStyle")) = IF installed THEN 1 ELSE 0
        /\ \A i \in RunsOf(calls, "postcss"), j \in RunsOf(calls, "globalStyle") :
              Len(transformResult.calls) < i /\ i < j
        /\ \A j \in RunsOf(calls, "globalStyle") : Len(transformResult.calls) < j

-----------------------------------------------------------------------
(* C5 *)

\* C5 as stated: the returned dependency and diagnostic lists hold every
\* entry every stage reported, in order.
C5_EveryStageAppends ==
    Returned =>
        /\ result.dependencies = ConcatAll(DepsOf(calls))
        /\ result.diagnostics = ConcatAll(DiagsOf(calls))

Compiler(e) ==
    /\ e.fn \in { "transformer", "function" }
    /\ e.name \notin { "replace", "globalStyle" }

DependencyStage(e) ==
    \/ e.fn = "getTagInfo" /\ ~IsPreserved(transformResult.lang, transformResult.alias)
    \/ Compiler(e)

DiagnosticStage(e) ==
    /\ Compiler(e)
    /\ \/ entry = "script"
       \/ entry = "markup" /\ ~templateMatch.found

\* C5 amended: the returned dependency list is the tag's own dependencies
\* (dropped when the block is preserved), then the language transformer's,
\* then the babel or postcss transformer's, in that order, never
\* deduplicated and never reordered; what the replace pre-pass and
\* globalStyle report is not included.  Diagnostics are returned by script()
\* (the language transformer's, then babel's) and by markup() when it finds
\* no container tag; style() and a spliced markup() return none.
C5_ListedStagesAppend ==
    /\ Returned =>
          /\ result.dependencies = ConcatAll(DepsOf(SelectSeq(calls, DependencyStage)))
          /\ result.diagnostics = ConcatAll(DiagsOf(SelectSeq(calls, DiagnosticStage)))
    /\ pc \in { "piped", "postcssed", "globaled", "babeled" } =>
          cur.dependencies = ConcatAll(DepsOf(SelectSeq(calls, DependencyStage)))

\* A style block with a tag dependency, compiled by scss and by postcss,
\* both reporting the same file.
C5_Witness ==
    /\ entry = "style" /\ Returned
    /\ result.dependencies = Some(<< "b", "a", "a" >>)

-----------------------------------------------------------------------
(* C8 *)

\* C8 as stated: after the fallback the effective lang and alias are never
\* null or undefined, whatever `defaults` holds.
C8_LangNeverNull ==
    Piped =>
        /\ transformResult.lang \notin { Null, Undef }
        /\ transformResult.alias \notin { Null, Undef }

-----------------------------------------------------------------------
(* C6 *)

\* The value of key k after the layering, the last layer that sets it winning.
Layered(name, alias, k) ==
    LET nameOpts == Lookup(name)
        aliasOpts == Lookup(alias)
    IN  IF sourceMap /\ name \in SourceMapNames /\ k = SOURCE_MAP_PROP_MAP(name)[1]
        THEN SOURCE_MAP_PROP_MAP(name)[2]
        ELSE IF alias # name /\ aliasOpts.kind = "object" /\ aliasOpts.obj[k] # Absent
        THEN aliasOpts.obj[k]
        ELSE IF alias # name /\ ALIAS_OPTION_OVERRIDES(alias)[k] # Absent
        THEN ALIAS_OPTION_OVERRIDES(alias)[k]
        ELSE IF nameOpts.kind = "object" THEN nameOpts.obj[k]
        ELSE Absent

\* C6: getTransformerOptions returns a function option verbatim (the alias's
\* first), else false if either option is false, else the object layered from
\* the name's options, the alias override and the alias's options (only for
\* an alias other than the name) and the source-map option, later layers
\* winning per key.
C6_OptionsLayered ==
    optQuery # NoQuery =>
        LET nameOpts == Lookup(optQuery.name)
            aliasOpts == Lookup(optQuery.alias)
            r == optQuery.result
        IN  IF aliasOpts.kind = "function" THEN r = aliasOpts
            ELSE IF nameOpts.kind = "function" THEN r = nameOpts
            ELSE IF aliasOpts.kind = "false" \/ nameOpts.kind = "false" THEN r = FalseOpt
            ELSE /\ r.kind = "object"
                 /\ \A k \in Keys : r.obj[k] = Layered(optQuery.name, optQuery.alias, k)

\* The alias sass of scss with no option given for either: the override is there.
C6_Witness ==
    /\ optQuery.name = "scss" /\ optQuery.alias = "sass"
    /\ Lookup("scss") = UndefOpt /\ Lookup("sass") = UndefOpt
    /\ optQuery.result.kind = "object"
    /\ optQuery.result.obj["indentedSyntax"] = "true"

-----------------------------------------------------------------------
(* C9 *)

\* C9 as stated: the scss transformer's result has a string for code, and
\* its dependencies are absent or a non-empty list.
C9_CodeAndDependencies ==
    \A p \in DOMAIN inv :
        (inv[p].pc = "done" /\ inv[p].result.error = "none") =>
            /\ inv[p].result.code # None
            /\ inv[p].result.dependencies # Some(<< >>)

-----------------------------------------------------------------------
(* C10 *)

CacheHoldsFallbackOnly == sass \in { Null, FallbackImpl }

ImplementationUsed ==
    \A p \in DOMAIN inv :
        inv[p].pc \in { "rendering", "done" } =>
            inv[p].implementation =
                IF inv[p].passed # Null THEN inv[p].passed ELSE FallbackImpl

\* C10 as stated: the fallback is imported at most once, the cache only ever
\* holds the fallback, and a passed implementation serves its own invocation
\* only.
C10_ImportedAtMostOnce ==
    /\ Len(importCalls) <= 1
    /\ CacheHoldsFallbackOnly
    /\ ImplementationUsed

\* C10 amended: an invocation imports the fallback only when it was passed no
\* implementation and found the cache empty, so every invocation that starts
\* before the first import resolves imports it again (more than once when
\* invocations interleave), and none does once the cache is set; the cache,
\* once set, keeps its value; it only ever holds the fallback, never a passed
\* implementation, which serves its own invocation only.
C10_ImportsOnlyWhileCacheEmpty ==
    /\ [](/\ CacheHoldsFallbackOnly
          /\ ImplementationUsed
          /\ Len(importCalls) <= started
          /\ \A i \in 1..Len(importCalls) : importCalls[i].cache = Null)
    /\ [][sass # Null => (sass' = sass /\ importCalls' = importCalls)]_vars

\* Two overlapping invocations have both imported the fallback, and a third,
\* started with the cache set and an implementation of its own, has compiled
\* with that one without importing.
C10_Witness ==
    /\ sass = FallbackImpl
    /\ Len(importCalls) = 2
    /\ started = MaxInvocations
    /\ \E p \in DOMAIN inv :
          /\ inv[p].pc = "done" /\ inv[p].passed = PassedImpl
          /\ inv[p].implementation = PassedImpl

==========================================================================
